---- MODULE Spec2Model ----
(***************************************************************************)
(* The two RDFEngine variants of the repository behind one interface       *)
(* (new / execute_query / execute_update / execute_validation):            *)
(*   "lib"   tools/src/lib.rs            hand-rolled Vec<Triple> engine    *)
(*   "bfg9k" tools/bfg9k_rdf_engine.rs   engine on an oxigraph Store       *)
(* An engine instance is of one variant, fixed when it is constructed.     *)
(*                                                                         *)
(* Input text is a sequence of lines; a line is a sequence of lexemes.     *)
(* Words(lx) is the whitespace-free words a lexeme is written as, which is *)
(* what lib.rs sees after trim()/split_whitespace(); the Turtle reader of  *)
(* bfg9k sees the lexemes themselves.                                      *)
(***************************************************************************)
EXTENDS Integers, Sequences, FiniteSets, TLC

VARIABLES variant, triples, store, last

vars == <<variant, triples, store, last>>

(* ------------------------------ bounds -------------------------------- *)

\* Largest number of triples the lib.rs Vec is let grow to.
MaxTriples == 4

(* ---------------------------- vocabulary ------------------------------ *)

RDF_NS  == "http://www.w3.org/1999/02/22-rdf-syntax-ns#"
RDFS_NS == "http://www.w3.org/2000/01/rdf-schema#"
OWL_NS  == "http://www.w3.org/2002/07/owl#"
EX_NS   == "http://example.org/"

\* The predicate literal of lib.rs execute_query and execute_validation.
RDF_TYPE  == "http://www.w3.org/1999/02/22-rdf-syntax-ns#type"
\* The object literal of lib.rs execute_validation.
OWL_CLASS == "http://www.w3.org/2002/07/owl#Class"

(* ------------------------------ lexemes ------------------------------- *)

Iri(v)      == [k |-> "iri",     w |-> <<v>>]
PName(p, l) == [k |-> "pname",   w |-> <<p, l>>]
KwA         == [k |-> "a",       w |-> <<"a">>]
Lit(ws)     == [k |-> "lit",     w |-> ws]
Punct(c)    == [k |-> "punct",   w |-> <<c>>]
KwPrefix    == [k |-> "prefix",  w |-> <<"@prefix">>]
Comment(ws) == [k |-> "comment", w |-> ws]
Bare(x)     == [k |-> "bare",    w |-> <<x>>]

Dot   == Punct(".")
Semi  == Punct(";")
Comma == Punct(",")

\* The whitespace-separated words a lexeme is written as.
Words(lx) ==
    CASE lx.k = "iri"     -> << "<" \o lx.w[1] \o ">" >>
      [] lx.k = "pname"   -> << lx.w[1] \o ":" \o lx.w[2] >>
      [] lx.k = "lit"     -> [i \in 1..Len(lx.w) |->
                                (IF i = 1 THEN "\"" ELSE "") \o lx.w[i]
                                   \o (IF i = Len(lx.w) THEN "\"" ELSE "")]
      [] lx.k = "comment" -> [i \in 1..Len(lx.w) |->
                                (IF i = 1 THEN "#" ELSE "") \o lx.w[i]]
      [] OTHER            -> lx.w

RECURSIVE LineWords(_)
LineWords(line) ==
    IF line = <<>> THEN <<>> ELSE Words(Head(line)) \o LineWords(Tail(line))

Range(f) == {f[i] : i \in DOMAIN f}

(* ------------------------- terms and triples -------------------------- *)

\* lib.rs Triple: three Strings.
Triple(s, p, o) == [subject |-> s, predicate |-> p, object |-> o]

\* oxigraph terms: NamedNode and Literal.
NamedNode(v) == [t |-> "iri", v |-> v]
Literal(v)   == [t |-> "lit", v |-> v]
\* A SPARQL variable in a triple pattern.
Variable(n)  == [t |-> "var", v |-> n]

\* Display of an oxigraph term, as used by format!("{}") and to_string().
Display(x) ==
    CASE x.t = "iri" -> "<" \o x.v \o ">"
      [] x.t = "lit" -> "\"" \o x.v \o "\""
      [] x.t = "var" -> "?" \o x.v

(* ----------------------------- input text ----------------------------- *)

PrefixLine(label, ns) == <<KwPrefix, PName(label, ""), Iri(ns), Dot>>

\* The document of tests::test_basic_validation (both files).
TestTtl ==
    << <<>>,
       PrefixLine("rdf", RDF_NS),
       PrefixLine("rdfs", RDFS_NS),
       PrefixLine("owl", OWL_NS),
       <<>>,
       <<PName("", "TestClass"), KwA, PName("owl", "Class"), Semi>>,
       <<PName("rdfs", "label"), Lit(<<"Test", "Class">>), Semi>>,
       <<PName("rdfs", "comment"), Lit(<<"A", "test", "class">>), Dot>> >>

\* A class declaration with label and comment, one statement per line, full IRIs.
ClassTtl ==
    << <<Iri(EX_NS \o "T"), Iri(RDF_TYPE), Iri(OWL_CLASS), Dot>>,
       <<Iri(EX_NS \o "T"), Iri(RDFS_NS \o "label"), Lit(<<"T">>), Dot>>,
       <<Iri(EX_NS \o "T"), Iri(RDFS_NS \o "comment"), Lit(<<"c">>), Dot>> >>

\* The same class declaration with a declared prefix and the keyword a.
PrefixedClassTtl ==
    << PrefixLine("owl", OWL_NS),
       <<Iri(EX_NS \o "T"), KwA, PName("owl", "Class"), Dot>> >>

\* The flat grammar: bare words, no angle brackets, no terminator.
BareClassTtl ==
    << <<Bare("T"), Bare(RDF_TYPE), Bare(OWL_CLASS)>> >>

\* Two well-formed statements among a blank line, a comment and a two-term line.
MixedTtl ==
    << <<>>,
       <<Comment(<<"", "note">>)>>,
       <<Iri(EX_NS \o "s"), Iri(EX_NS \o "p"), Iri(EX_NS \o "o"), Dot>>,
       <<Iri(EX_NS \o "s"), Iri(EX_NS \o "p")>>,
       <<Iri(EX_NS \o "s"), Iri(EX_NS \o "q"), Lit(<<"v">>), Dot>> >>

\* One well-formed statement after a prefix declaration.
PrefixedTtl ==
    << PrefixLine("ex", EX_NS),
       <<PName("ex", "s"), PName("ex", "p"), PName("ex", "o"), Dot>> >>

\* IRIs spelled exactly as the string literals of bfg9k execute_validation.
ShortTtl ==
    << <<Iri(EX_NS \o "T"), Iri("rdf:type"), Iri("owl:Class"), Dot>>,
       <<Iri(EX_NS \o "T"), Iri("rdfs:label"), Lit(<<"T">>), Dot>> >>

\* A single statement, no class declaration.
PlainTtl ==
    << <<Iri(EX_NS \o "s"), Iri(EX_NS \o "p"), Iri(EX_NS \o "o"), Dot>> >>

EmptyTtl == <<>>

Texts == {TestTtl, ClassTtl, PrefixedClassTtl, BareClassTtl, MixedTtl,
          PrefixedTtl, ShortTtl, PlainTtl, EmptyTtl}

(* ------------------------------ queries ------------------------------- *)

\* A query text, read as SPARQL with one triple pattern, or unparseable ("bad").
Select(s, p, o) == [form |-> "select", s |-> s, p |-> p, o |-> o]
Ask(s, p, o)    == [form |-> "ask",    s |-> s, p |-> p, o |-> o]
Construct(s, p, o) == [form |-> "construct", s |-> s, p |-> p, o |-> o]
BadQuery        == [form |-> "bad", s |-> Variable("s"), p |-> Variable("p"),
                    o |-> Variable("o")]

Queries ==
    { Select(NamedNode(EX_NS \o "T"), Variable("p"), NamedNode(OWL_CLASS)),
      Select(Variable("s"), NamedNode(RDF_TYPE), Variable("o")),
      Select(Variable("s"), NamedNode(EX_NS \o "p"), Variable("o")),
      Ask(NamedNode(EX_NS \o "T"), NamedNode(RDF_TYPE), NamedNode(OWL_CLASS)),
      Ask(NamedNode(EX_NS \o "s"), NamedNode(EX_NS \o "p"), NamedNode(EX_NS \o "o")),
      Construct(Variable("s"), NamedNode(RDF_TYPE), Variable("o")),
      BadQuery }

(* --------------------------- returned values -------------------------- *)

\* The value handed to serde_wasm_bindgen::to_value, or the bool of update.
JArray(items) == [j |-> "array", items |-> items]
JBool(b)      == [j |-> "bool", b |-> b]
\* No value: the call returned Err.
JNone         == [j |-> "none"]

(* ------------------- lib.rs: the hand-rolled engine ------------------- *)

\* line.is_empty() || line.starts_with('#'), on the trimmed line: only a
\* comment lexeme is written with a leading '#'.
lib_skips(line) == LineWords(line) = <<>> \/ Head(line).k = "comment"

\* execute_update: every kept line of three or more words pushes a Triple of
\* its first three words; nothing else is looked at.
RECURSIVE lib_execute_update(_, _)
lib_execute_update(ts, ttl) ==
    IF ttl = <<>> THEN ts
    ELSE LET line  == Head(ttl)
             parts == LineWords(line)
         IN  IF lib_skips(line) THEN lib_execute_update(ts, Tail(ttl))
             ELSE IF Len(parts) >= 3
                  THEN lib_execute_update(
                           Append(ts, Triple(parts[1], parts[2], parts[3])), Tail(ttl))
                  ELSE lib_execute_update(ts, Tail(ttl))

\* execute_query: the query text is not read; one {subject, object} map per
\* stored triple whose predicate is RDF_TYPE, in Vec order.
lib_execute_query(ts, query) ==
    LET hit == SelectSeq(ts, LAMBDA t : t.predicate = RDF_TYPE)
    IN  JArray([i \in 1..Len(hit) |->
                   {<<"subject", hit[i].subject>>, <<"object", hit[i].object>>}])

\* execute_validation: the text is not read; the check runs over self.triples.
lib_execute_validation(ts, ttl) ==
    LET has_classes == \E i \in 1..Len(ts) :
                          /\ ts[i].predicate = RDF_TYPE
                          /\ ts[i].object = OWL_CLASS
    IN  JArray(IF ~has_classes THEN <<"No owl:Class definitions found">> ELSE <<>>)

(* --------------- bfg9k_rdf_engine.rs: the oxigraph engine ------------- *)

\* A literal's lexical value: its words with the single spaces between them.
RECURSIVE Join(_)
Join(ws) ==
    IF Len(ws) = 1 THEN ws[1] ELSE ws[1] \o " " \o Join(Tail(ws))

\* The lexemes of a line up to its first comment.
RECURSIVE UpToComment(_)
UpToComment(line) ==
    IF line = <<>> \/ Head(line).k = "comment" THEN <<>>
    ELSE <<Head(line)>> \o UpToComment(Tail(line))

\* The Turtle reader's token stream: Turtle is not line-oriented.
RECURSIVE Tokens(_)
Tokens(ttl) ==
    IF ttl = <<>> THEN <<>> ELSE UpToComment(Head(ttl)) \o Tokens(Tail(ttl))

Declared(pfx, label) == \E e \in pfx : e[1] = label
Namespace(pfx, label) == (CHOOSE e \in pfx : e[1] = label)[2]

\* Whether a token denotes a resource under the prefixes declared so far.
IsResource(tk, pfx) ==
    \/ tk.k = "iri"
    \/ tk.k = "pname" /\ Declared(pfx, tk.w[1])

Resolve(tk, pfx) ==
    CASE tk.k = "iri"   -> NamedNode(tk.w[1])
      [] tk.k = "pname" -> NamedNode(Namespace(pfx, tk.w[1]) \o tk.w[2])
      [] tk.k = "a"     -> NamedNode(RDF_TYPE)
      [] tk.k = "lit"   -> Literal(Join(tk.w))

\* Graph::read_from(.., GraphFormat::Turtle): @prefix directives and
\* subject (verb object (, object)*) (; verb object...)* . statements.  The
\* result is Ok with the graph read, or Err at the first token that fits
\* nowhere; graph then holds the triples read before it.
RECURSIVE turtle_read(_, _, _, _, _, _)
turtle_read(toks, st, subj, pred, pfx, acc) ==
    IF toks = <<>> THEN [ok |-> st = "stmt", graph |-> acc]
    ELSE
      LET tk   == Head(toks)
          rest == Tail(toks)
          err  == [ok |-> FALSE, graph |-> acc]
      IN
      CASE st = "stmt" ->
             IF tk.k = "prefix"
             THEN IF /\ Len(rest) >= 3
                     /\ rest[1].k = "pname" /\ rest[1].w[2] = ""
                     /\ rest[2].k = "iri"
                     /\ rest[3] = Dot
                  THEN turtle_read(SubSeq(rest, 4, Len(rest)), "stmt", subj, pred,
                           {e \in pfx : e[1] # rest[1].w[1]}
                               \cup {<<rest[1].w[1], rest[2].w[1]>>}, acc)
                  ELSE err
             ELSE IF IsResource(tk, pfx)
                  THEN turtle_read(rest, "verb", Resolve(tk, pfx), pred, pfx, acc)
                  ELSE err
        [] st = "verb" ->
             IF tk.k = "a" \/ IsResource(tk, pfx)
             THEN turtle_read(rest, "obj", subj, Resolve(tk, pfx), pfx, acc)
             ELSE err
        [] st = "obj" ->
             IF tk.k = "lit" \/ IsResource(tk, pfx)
             THEN turtle_read(rest, "after", subj, pred, pfx,
                      acc \cup {Triple(subj, pred, Resolve(tk, pfx))})
             ELSE err
        [] st = "after" ->
             IF tk = Dot THEN turtle_read(rest, "stmt", subj, pred, pfx, acc)
             ELSE IF tk = Semi THEN turtle_read(rest, "verb", subj, pred, pfx, acc)
             ELSE IF tk = Comma THEN turtle_read(rest, "obj", subj, pred, pfx, acc)
             ELSE err

graph_read_from(ttl) ==
    turtle_read(Tokens(ttl), "stmt", NamedNode(""), NamedNode(""), {}, {})

\* The sequences that enumerate a set once each: the orders an iterator over
\* an oxigraph Graph or Store may yield its triples in.
Orders(S) ==
    {f \in [1..Cardinality(S) -> S] : \A i, j \in DOMAIN f : f[i] = f[j] => i = j}

\* A reader that inserts as it reads: what it read before the error stays.
bfg9k_execute_update_streaming(st, ttl) ==
    LET g == graph_read_from(ttl)
    IN  [ok |-> g.ok, store |-> st \cup g.graph]

\* execute_update: the whole text is read into a Graph first; only a graph
\* read without error is inserted.  Store::insert on the in-memory store does
\* not fail.  The store is a set: inserting a triple it holds changes nothing.
bfg9k_execute_update(st, ttl) ==
    LET g == graph_read_from(ttl)
    IN  IF ~g.ok THEN [ok |-> FALSE, store |-> st]
        ELSE [ok |-> TRUE, store |-> st \cup g.graph]

required_props == {"rdfs:label", "rdfs:comment"}

Warning(t) ==
    "Warning: Triple " \o Display(t.subject) \o " " \o Display(t.predicate)
        \o " " \o Display(t.object) \o " uses non-standard predicate"

\* execute_validation, with iter the order graph.iter() yields the triples in.
\* A predicate is always a NamedNode, so as_named() is Some; as_str() of a
\* NamedNode is its whole IRI.
bfg9k_execute_validation(ttl, iter) ==
    LET g == graph_read_from(ttl)
        flagged == SelectSeq(iter, LAMBDA t : t.predicate.v \notin required_props)
        warnings == [i \in 1..Len(flagged) |-> Warning(flagged[i])]
        has_classes == \E t \in g.graph :
                          /\ t.predicate.v = "rdf:type"
                          /\ t.object.t = "iri" /\ t.object.v = "owl:Class"
    IN  IF ~g.ok THEN [ok |-> FALSE, value |-> JNone]
        ELSE [ok |-> TRUE,
              value |-> JArray(IF ~has_classes
                               THEN Append(warnings,
                                           "Error: No owl:Class definitions found")
                               ELSE warnings)]

\* Whether a pattern position admits a term: a variable admits any.
Admits(pos, term) == pos.t = "var" \/ pos = term

\* Store::query on one triple pattern: a triple is a solution when its terms
\* fit the concrete positions and a variable used twice gets one value.
Solves(q, t) ==
    /\ Admits(q.s, t.subject) /\ Admits(q.p, t.predicate) /\ Admits(q.o, t.object)
    /\ (q.s.t = "var" /\ q.s = q.p) => t.subject = t.predicate
    /\ (q.s.t = "var" /\ q.s = q.o) => t.subject = t.object
    /\ (q.p.t = "var" /\ q.p = q.o) => t.predicate = t.object

Solutions(st, q) == {t \in st : Solves(q, t)}

\* One row of the JSON array: variable name -> term, both by to_string().
Row(q, t) ==
    LET at == {<<q.s, t.subject>>, <<q.p, t.predicate>>, <<q.o, t.object>>}
    IN  {<<Display(b[1]), Display(b[2])>> : b \in {c \in at : c[1].t = "var"}}

\* execute_query, with iter the order the solutions are yielded in.
bfg9k_execute_query(st, q, iter) ==
    CASE q.form = "bad" -> [ok |-> FALSE, value |-> JNone]
      [] q.form = "select" ->
           [ok |-> TRUE, value |-> JArray([i \in 1..Len(iter) |-> Row(q, iter[i])])]
      [] q.form = "ask" ->
           [ok |-> TRUE, value |-> JBool(Solutions(st, q) # {})]
      [] q.form = "construct" ->
           [ok |-> TRUE,
            value |-> JArray([i \in 1..Len(iter) |->
                          Display(iter[i].subject) \o " " \o Display(iter[i].predicate)
                              \o " " \o Display(iter[i].object)])]

(* --------------------------- state machine ---------------------------- *)

\* What the last call was and returned: ok is Ok(..) against Err(..), value
\* the Ok value, pre the engine's triples before the call.
Call(op, arg, ok, value, pre) ==
    [op |-> op, arg |-> arg, ok |-> ok, value |-> value, pre |-> pre]

\* RDFEngine::new() of either file.
Init ==
    /\ variant \in {"lib", "bfg9k"}
    /\ triples = <<>>
    /\ store = {}
    /\ last = Call("new", <<>>, TRUE, JNone, IF variant = "lib" THEN <<>> ELSE {})

LibUpdate ==
    /\ variant = "lib"
    /\ \E ttl \in Texts :
          /\ Len(lib_execute_update(triples, ttl)) <= MaxTriples
          /\ triples' = lib_execute_update(triples, ttl)
          /\ last' = Call("update", ttl, TRUE, JBool(TRUE), triples)
    /\ UNCHANGED <<variant, store>>

LibQuery ==
    /\ variant = "lib"
    /\ \E q \in Queries :
          last' = Call("query", q, TRUE, lib_execute_query(triples, q), triples)
    /\ UNCHANGED <<variant, triples, store>>

LibValidation ==
    /\ variant = "lib"
    /\ \E ttl \in Texts :
          last' = Call("validation", ttl, TRUE,
                       lib_execute_validation(triples, ttl), triples)
    /\ UNCHANGED <<variant, triples, store>>

Bfg9kUpdate ==
    /\ variant = "bfg9k"
    /\ \E ttl \in Texts :
          LET r == bfg9k_execute_update(store, ttl)
          IN  /\ store' = r.store
              /\ last' = Call("update", ttl, r.ok,
                               IF r.ok THEN JBool(TRUE) ELSE JNone, store)
    /\ UNCHANGED <<variant, triples>>

Bfg9kQuery ==
    /\ variant = "bfg9k"
    /\ \E q \in Queries :
          \E iter \in Orders(IF q.form \in {"select", "construct"}
                               THEN Solutions(store, q) ELSE {}) :
             LET r == bfg9k_execute_query(store, q, iter)
             IN  last' = Call("query", q, r.ok, r.value, store)
    /\ UNCHANGED <<variant, triples, store>>

\* A validation that reads the text into the Store instead of a Graph.
Bfg9kValidationIntoStore ==
    /\ variant = "bfg9k"
    /\ \E ttl \in Texts :
          \E iter \in Orders(graph_read_from(ttl).graph) :
             LET r == bfg9k_execute_validation(ttl, iter)
             IN  /\ last' = Call("validation", ttl, r.ok, r.value, store)
                 /\ store' = store \cup graph_read_from(ttl).graph
    /\ UNCHANGED <<variant, triples>>

Bfg9kValidation ==
    /\ variant = "bfg9k"
    /\ \E ttl \in Texts :
          \E iter \in Orders(graph_read_from(ttl).graph) :
             LET r == bfg9k_execute_validation(ttl, iter)
             IN  last' = Call("validation", ttl, r.ok, r.value, store)
    /\ UNCHANGED <<variant, triples, store>>

Next ==
    \/ LibUpdate
    \/ LibQuery
    \/ LibValidation
    \/ Bfg9kUpdate
    \/ Bfg9kQuery
    \/ Bfg9kValidation

Spec == Init /\ [][Next]_vars

(* ------------------------------ claims -------------------------------- *)

\* The engine's triples, whichever the variant.
StoreNow == IF variant = "lib" THEN triples ELSE store

StoreEmpty == IF variant = "lib" THEN triples = <<>> ELSE store = {}

\* The lexemes that denote the type identifier and the Class identifier.
TypeLexemes  == {Iri(RDF_TYPE), Bare(RDF_TYPE), KwA, PName("rdf", "type")}
ClassLexemes == {Iri(OWL_CLASS), Bare(OWL_CLASS), PName("owl", "Class")}

\* Whether a text holds a class declaration: a type predicate followed by
\* the Class object.
DeclaresClass(ttl) ==
    \E n \in 1..Len(ttl) : \E i \in 1..(Len(ttl[n]) - 1) :
        ttl[n][i] \in TypeLexemes /\ ttl[n][i + 1] \in ClassLexemes

\* The entries of a diagnostics sequence that come from the class rule.
ClassMessages == {"No owl:Class definitions found",
                  "Error: No owl:Class definitions found"}
ClassEntries(items) == {i \in 1..Len(items) : items[i] \in ClassMessages}

\* C1: after any sequence of updates the Store holds no two equal triples, and
\* an update whose triples the Store all holds already leaves its size unchanged.
C1_NoDuplicateTriples ==
    /\ \A i, j \in 1..Len(triples) : triples[i] = triples[j] => i = j
    /\ (variant = "lib" /\ last.op = "update"
          /\ Range(lib_execute_update(<<>>, last.arg)) \subseteq Range(last.pre))
       => Len(triples) = Len(last.pre)
    /\ (variant = "bfg9k" /\ last.op = "update" /\ last.ok
          /\ graph_read_from(last.arg).graph \subseteq last.pre)
       => Cardinality(store) = Cardinality(last.pre)

\* C2: on a freshly created engine, validation of a text with a class
\* declaration, a label and a comment on one subject returns no diagnostics.
C2_ClassWithLabelAndCommentPasses ==
    (last.op = "validation" /\ StoreEmpty
        /\ last.arg \in {TestTtl, ClassTtl})
    => (last.ok /\ last.value = JArray(<<>>))

\* What validation of a text can return on a freshly created engine.
FreshValidation(ttl) ==
    IF variant = "lib"
    THEN {[ok |-> TRUE, value |-> lib_execute_validation(<<>>, ttl)]}
    ELSE {bfg9k_execute_validation(ttl, iter) :
             iter \in Orders(graph_read_from(ttl).graph)}

\* C3: the diagnostics of validation depend on the text alone: whatever the
\* Store holds, they are those a freshly created engine returns for the text.
C3_ValidationReadsTextOnly ==
    last.op = "validation"
    => [ok |-> last.ok, value |-> last.value] \in FreshValidation(last.arg)

\* C4: validation of a text without a class declaration returns exactly one
\* class-rule entry, and of any text at most one.
C4_OneErrorWithoutClass ==
    (last.op = "validation" /\ last.ok)
    => /\ Cardinality(ClassEntries(last.value.items)) <= 1
       /\ ~DeclaresClass(last.arg)
             => Cardinality(ClassEntries(last.value.items)) = 1

\* The triples of a text, as the engine's own reader yields them, with the
\* predicate each has.
ScopePredicates(ttl) ==
    IF variant = "lib"
    THEN LET ts == lib_execute_update(<<>>, ttl)
         IN  [i \in 1..Len(ts) |-> ts[i].predicate]
    ELSE LET g == CHOOSE iter \in Orders(graph_read_from(ttl).graph) : TRUE
         IN  [i \in 1..Len(g) |-> g[i].predicate.v]

\* C5: validation returns one Warning per triple of the text whose predicate
\* is outside required_props, none for the others, all before the class entry.
C5_WarningPerNonStandardTriple ==
    (last.op = "validation" /\ last.ok)
    => LET items    == last.value.items
           preds    == ScopePredicates(last.arg)
           flagged  == {i \in 1..Len(preds) : preds[i] \notin required_props}
           warnings == {i \in 1..Len(items) : items[i] \notin ClassMessages}
       IN  /\ Cardinality(warnings) = Cardinality(flagged)
           /\ \A w \in warnings : \A e \in ClassEntries(items) : w < e

\* Whether a stored triple fits the concrete positions of a pattern; the
\* lib.rs Vec holds terms as written, the oxigraph Store as terms.
Fits(q, t) ==
    IF variant = "lib"
    THEN /\ q.s.t = "var" \/ Display(q.s) = t.subject
         /\ q.p.t = "var" \/ Display(q.p) = t.predicate
         /\ q.o.t = "var" \/ Display(q.o) = t.object
    ELSE Solves(q, t)

\* The triples of the Store before the last call that fit a pattern.
Fitting(q) ==
    IF variant = "lib"
    THEN {last.pre[i] : i \in {n \in 1..Len(last.pre) : Fits(q, last.pre[n])}}
    ELSE {t \in last.pre : Fits(q, t)}

\* The number of Store entries that fit a pattern.
FitCount(q) ==
    IF variant = "lib"
    THEN Cardinality({n \in 1..Len(last.pre) : Fits(q, last.pre[n])})
    ELSE Cardinality(Fitting(q))

\* The values some binding of a result gives to the predicate variable.
BoundPredicates(q, items) ==
    {b[2] : b \in {c \in UNION Range(items) :
                       c[1] \in {Display(q.p), q.p.v, "predicate"}}}

PredicateText(t) ==
    IF variant = "lib" THEN t.predicate ELSE Display(t.predicate)

\* C6: a pattern with variables returns one binding per stored triple that
\* fits its concrete positions and none for another; with only the predicate
\* a variable, the variable takes exactly the predicates of the fitting triples.
C6_BindingPerFittingTriple ==
    (last.op = "query" /\ last.arg.form = "select")
    => /\ last.ok
       /\ last.value.j = "array"
       /\ Len(last.value.items) = FitCount(last.arg)
       /\ (last.arg.s.t # "var" /\ last.arg.p.t = "var" /\ last.arg.o.t # "var")
          => BoundPredicates(last.arg, last.value.items)
                = {PredicateText(t) : t \in Fitting(last.arg)}

\* C7: a pattern without variables returns the boolean true exactly when a
\* triple equal to it is stored; on an empty Store a boolean pattern returns
\* false and a pattern with variables an empty sequence.
C7_BooleanIffStored ==
    /\ (last.op = "query" /\ last.arg.form = "ask")
       => /\ last.ok
          /\ last.value.j = "bool"
          /\ last.value.b = (FitCount(last.arg) > 0)
    /\ (last.op = "query" /\ last.arg.form = "select" /\ StoreEmpty)
       => (last.ok /\ last.value = JArray(<<>>))

\* The terms of a line, and whether the line is a statement of the flat
\* grammar: three terms, not a comment, not a prefix declaration.
Terms(line) ==
    SelectSeq(line, LAMBDA lx : lx.k \in {"iri", "pname", "a", "lit", "bare"})
IsStatement(line) ==
    /\ line # <<>>
    /\ Head(line).k \notin {"comment", "prefix"}
    /\ Len(Terms(line)) >= 3
StatementCount(ttl) == Cardinality({n \in 1..Len(ttl) : IsStatement(ttl[n])})

\* C8: update of an empty Store returns true and leaves one triple per
\* statement of the text; blank lines, comments, prefix declarations and lines
\* of fewer than three terms add none.
C8_OneTriplePerStatement ==
    (variant = "lib" /\ last.op = "update" /\ last.pre = <<>>)
    => /\ last.ok /\ last.value = JBool(TRUE)
       /\ Len(triples) = StatementCount(last.arg)

\* C9: a query or a validation, failed or not, leaves the Store as it was.
C9_QueryAndValidationKeepStore ==
    last.op \in {"query", "validation"} => StoreNow = last.pre

\* A validation that failed on a Store that holds triples.
C9_Witness ==
    /\ last.op = "validation" /\ ~last.ok
    /\ store # {}
    /\ graph_read_from(last.arg).graph # {}

====
